---------------------------- MODULE Spec2Model ----------------------------
(***************************************************************************)
(* Model of salt/states/mysql_grants.py: the two state functions           *)
(* present() and absent(), which reconcile one MySQL grant through the     *)
(* execution module functions mysql.grant_exists, mysql.grant_add and      *)
(* mysql.grant_revoke.                                                     *)
(*                                                                         *)
(* Python values are modelled as strings where None can occur next to a    *)
(* boolean or a string ("True", "False", "None"); a formatted comment is   *)
(* the tuple of its template and the values formatted into it.             *)
(***************************************************************************)
EXTENDS Naturals, Sequences, FiniteSets

\* Number of state-function invocations one run of the model makes.
MaxInvocations == 3

None == "None"
PyTrue == "True"
PyFalse == "False"

Bool(b) == IF b THEN PyTrue ELSE PyFalse

\* The privilege types a grant is made of in the model.
Privs == {"select", "insert"}
AllPrivileges == "ALL PRIVILEGES"

\* Values of the arguments of present() and absent().
Names == {"frank_exampledb"}
PrivilegeArgs == Privs \cup {None}
Database == "exampledb.*"
User == "frank"
DefaultHost == "localhost"
DefaultGrantOption == FALSE
DefaultEscape == TRUE

VARIABLES grants, cur, prev, ninv

vars == <<grants, cur, prev, ninv>>

-----------------------------------------------------------------------------
(* The execution module (salt.modules.mysql), seen through its results.    *)
(* g is the set of privilege types user@host holds on the database.        *)

\* True: the grant exists exactly as specified; False: there is no grant;
\* None: another (conflicting) grant exists for user@host.
mysql_grant_exists(g, privileges) ==
    IF g = {privileges} THEN PyTrue
    ELSE IF g = {} THEN PyFalse
    ELSE None

\* A successful grant_add installs the grant; a failed one changes nothing.
mysql_grant_add(g, privileges, ok) ==
    IF ok THEN g \cup {privileges} ELSE g

\* A successful grant_revoke removes the privileges (all of them for
\* ALL PRIVILEGES); a failed one changes nothing.
mysql_grant_revoke(g, privileges, ok) ==
    IF ~ok THEN g
    ELSE IF privileges = AllPrivileges THEN {}
    ELSE g \ {privileges}

\* One call of an execution module function, as the state function makes it.
Call(fn, args, ret) == [fn |-> fn, args |-> args, ret |-> ret]

-----------------------------------------------------------------------------
(* present() and absent()                                                  *)

EffectivePrivileges_NoFallback(privileges, grant) == privileges

\* "if privileges is None and grant is not None: privileges = grant"
EffectivePrivileges(privileges, grant) ==
    IF privileges = None /\ grant # None THEN grant ELSE privileges

PresentAlreadyPresent_Never(grant_exists) == FALSE

\* "if grant_exists is True: return ret"
PresentAlreadyPresent(grant_exists) == grant_exists = PyTrue

\* "if __opts__['test']:" of present
PresentTestReturns(test) == test

PreviousGrantConflicts_NotTrue(grant_exists) == grant_exists # PyTrue

\* "if grant_exists is None:"
PreviousGrantConflicts(grant_exists) == grant_exists = None

PresentRevokePrivileges_Same(privileges) == privileges

\* first argument of the mysql.grant_revoke call of present
PresentRevokePrivileges(privileges) == AllPrivileges

PresentChanges_Empty(changes, name) == changes

\* "ret['changes'][name] = 'Present'"
PresentChanges(changes, name) ==
    {c \in changes : c[1] # name} \cup {<<name, "Present">>}

present(a, g, revokeOk, addOk) ==
    LET privileges == EffectivePrivileges(a.privileges, a.grant)
        ret == [name    |-> a.name,
                changes |-> {},
                result  |-> PyTrue,
                comment |-> <<"Grant {0} on {1} to {2}@{3} is already present",
                              privileges, a.database, a.user, a.host>>]
        grant_exists == mysql_grant_exists(g, privileges)
        c1 == <<Call("mysql.grant_exists",
                     <<privileges, a.database, a.user, a.host,
                       a.grant_option, a.escape>>,
                     grant_exists)>>
    IN  IF PresentAlreadyPresent(grant_exists)
        THEN [ret |-> ret, calls |-> c1, grants |-> g]
        ELSE IF PresentTestReturns(a.test)
        THEN [ret |-> [ret EXCEPT
                         !.result = None,
                         !.comment = <<"MySQL grant {0} is set to be created",
                                       a.name>>],
              calls |-> c1, grants |-> g]
        ELSE
        LET revoking == PreviousGrantConflicts(grant_exists)
            revoked == PresentRevokePrivileges(privileges)
            g2 == IF revoking THEN mysql_grant_revoke(g, revoked, revokeOk)
                  ELSE g
            c2 == IF revoking
                  THEN Append(c1, Call("mysql.grant_revoke",
                                       <<revoked, a.database, a.user, a.host,
                                         a.grant_option>>,
                                       Bool(revokeOk)))
                  ELSE c1
            \* "... is False:"
            ret2 == IF revoking /\ Bool(revokeOk) = PyFalse
                    THEN [ret EXCEPT
                            !.comment = <<"Failed to remove previous grant before applying new grant: GRANT {0} ON {1} TO {2}@{3}",
                                          privileges, a.database, a.user, a.host>>,
                            !.result = PyFalse]
                    ELSE ret
            g3 == mysql_grant_add(g2, privileges, addOk)
            c3 == Append(c2, Call("mysql.grant_add",
                                  <<privileges, a.database, a.user, a.host,
                                    a.grant_option, a.escape>>,
                                  Bool(addOk)))
            ret3 == IF addOk
                    THEN [ret2 EXCEPT
                            !.comment = <<"Grant {0} on {1} to {2}@{3} has been added",
                                          privileges, a.database, a.user, a.host>>,
                            !.changes = PresentChanges(@, a.name)]
                    ELSE [ret2 EXCEPT
                            !.comment = <<"Failed to execute: GRANT {0} ON {1} TO {2}@{3}",
                                          privileges, a.database, a.user, a.host>>,
                            !.result = PyFalse]
        IN  [ret |-> ret3, calls |-> c3, grants |-> g3]

AbsentGrantFound_NotFalse(grant_exists) == grant_exists # PyFalse

AbsentGrantFound_Inverted(grant_exists) == grant_exists # PyTrue

\* "if __salt__['mysql.grant_exists'](...):" -- the truth value of the
\* answer: None is false in Python.
AbsentGrantFound(grant_exists) == grant_exists = PyTrue

AbsentTestReturns_Never(test) == FALSE

\* "if __opts__['test']:" of absent
AbsentTestReturns(test) == test

\* "ret['changes'][name] = 'Absent'"
AbsentChanges(changes, name) ==
    {c \in changes : c[1] # name} \cup {<<name, "Absent">>}

absent(a, g, revokeOk) ==
    LET ret == [name    |-> a.name,
                changes |-> {},
                result  |-> PyTrue,
                comment |-> <<"">>]
        privileges == EffectivePrivileges(a.privileges, a.grant)
        grant_exists == mysql_grant_exists(g, privileges)
        c1 == <<Call("mysql.grant_exists",
                     <<privileges, a.database, a.user, a.host,
                       a.grant_option, a.escape>>,
                     grant_exists)>>
        \* "# fallback"
        fallback == [ret EXCEPT
                       !.comment = <<"Grant {0} on {1} to {2}@{3} is not present, so it cannot be revoked",
                                     privileges, a.database, a.user, a.host>>]
    IN  IF ~AbsentGrantFound(grant_exists)
        THEN [ret |-> fallback, calls |-> c1, grants |-> g]
        ELSE IF AbsentTestReturns(a.test)
        THEN [ret |-> [ret EXCEPT
                         !.result = None,
                         !.comment = <<"MySQL grant {0} is set to be revoked",
                                       a.name>>],
              calls |-> c1, grants |-> g]
        ELSE
        LET g2 == mysql_grant_revoke(g, privileges, revokeOk)
            c2 == Append(c1, Call("mysql.grant_revoke",
                                  <<privileges, a.database, a.user, a.host,
                                    a.grant_option>>,
                                  Bool(revokeOk)))
        IN  IF revokeOk
            \* the result of ret['comment'].format(...) is dropped: the
            \* comment stays the template
            THEN [ret |-> [ret EXCEPT
                             !.comment = <<"Grant {0} on {1} for {2}@{3} has been revoked">>,
                             !.changes = AbsentChanges(@, a.name)],
                  calls |-> c2, grants |-> g2]
            ELSE [ret |-> fallback, calls |-> c2, grants |-> g2]

-----------------------------------------------------------------------------
(* The state machine: a sequence of invocations against one backend.       *)

Args(name, privileges, grant, test) ==
    [name |-> name, privileges |-> privileges, grant |-> grant,
     database |-> Database, user |-> User, host |-> DefaultHost,
     grant_option |-> DefaultGrantOption, escape |-> DefaultEscape,
     test |-> test]

NoArgs == Args("", None, None, FALSE)

NoInvocation ==
    [kind |-> "none", args |-> NoArgs, pre |-> {}, post |-> {},
     calls |-> <<>>,
     ret |-> [name |-> "", changes |-> {}, result |-> None, comment |-> <<"">>]]

Invocation(kind, a, g, r) ==
    [kind |-> kind, args |-> a, pre |-> g, post |-> r.grants,
     calls |-> r.calls, ret |-> r.ret]

Init ==
    /\ grants \in SUBSET Privs
    /\ cur = NoInvocation
    /\ prev = NoInvocation
    /\ ninv = 0

Present(name, privileges, grant, test, revokeOk, addOk) ==
    /\ ninv < MaxInvocations
    /\ LET a == Args(name, privileges, grant, test)
           r == present(a, grants, revokeOk, addOk)
       IN  /\ grants' = r.grants
           /\ cur' = Invocation("present", a, grants, r)
    /\ prev' = cur
    /\ ninv' = ninv + 1

Absent(name, privileges, grant, test, revokeOk) ==
    /\ ninv < MaxInvocations
    /\ LET a == Args(name, privileges, grant, test)
           r == absent(a, grants, revokeOk)
       IN  /\ grants' = r.grants
           /\ cur' = Invocation("absent", a, grants, r)
    /\ prev' = cur
    /\ ninv' = ninv + 1

\* The privilege type is given through privileges, through grant, or both.
ArgPairs ==
    {pg \in PrivilegeArgs \X PrivilegeArgs : pg[1] # None \/ pg[2] # None}

Next ==
    \/ \E name \in Names, pg \in ArgPairs, test \in BOOLEAN,
          revokeOk \in BOOLEAN, addOk \in BOOLEAN :
          Present(name, pg[1], pg[2], test, revokeOk, addOk)
    \/ \E name \in Names, pg \in ArgPairs, test \in BOOLEAN,
          revokeOk \in BOOLEAN :
          Absent(name, pg[1], pg[2], test, revokeOk)

Spec == Init /\ [][Next]_vars

-----------------------------------------------------------------------------
(* Observations of an invocation i (cur or prev).                          *)

IsInvocation(i) == i.kind # "none"

\* the answer mysql.grant_exists gave the invocation
Answer(i) == i.calls[1].ret

IsMutation(c) == c.fn \in {"mysql.grant_add", "mysql.grant_revoke"}

Mutations(i) == SelectSeq(i.calls, IsMutation)

CallsTo(i, fn) == SelectSeq(i.calls, LAMBDA c : c.fn = fn)

\* a mysql.grant_add or mysql.grant_revoke call of i reported failure
SomeCallFailed(i) ==
    \E k \in DOMAIN i.calls : IsMutation(i.calls[k]) /\ i.calls[k].ret = PyFalse

\* a mysql.grant_add or mysql.grant_revoke call of i reported success
SomeCallSucceeded(i) ==
    \E k \in DOMAIN i.calls : IsMutation(i.calls[k]) /\ i.calls[k].ret = PyTrue

\* the privileges of the grant the caller asked for
SpecPrivileges(i) ==
    IF i.args.privileges # None THEN i.args.privileges ELSE i.args.grant

SpecArgs(i) ==
    <<SpecPrivileges(i), i.args.database, i.args.user, i.args.host,
      i.args.grant_option, i.args.escape>>

RevokeArgs(i, privileges) ==
    <<privileges, i.args.database, i.args.user, i.args.host,
      i.args.grant_option>>

Observed(i) == [ret |-> i.ret, calls |-> i.calls, grants |-> i.post]

Run(kind, a, g, revokeOk, addOk) ==
    IF kind = "present" THEN present(a, g, revokeOk, addOk)
    ELSE absent(a, g, revokeOk)

-----------------------------------------------------------------------------
\* C1: with the test flag set, present and absent make no mysql.grant_add
\* and no mysql.grant_revoke call, whatever mysql.grant_exists answered, and
\* the grants after the call are the grants before it.
C1_DryRunNeverMutates ==
    (IsInvocation(cur) /\ cur.args.test) =>
        /\ Mutations(cur) = <<>>
        /\ cur.post = cur.pre
        /\ grants = cur.pre

C1_Witness ==
    /\ cur.kind = "absent" /\ cur.args.test /\ Answer(cur) = PyTrue
    /\ prev.kind = "present" /\ prev.args.test /\ Answer(prev) = None

\* C2: after present in apply mode, if no backend call reported failure,
\* mysql.grant_exists answers True for the same grant, from every initial
\* state of the backend.
C2_PresentPostcondition ==
    (cur.kind = "present" /\ ~cur.args.test /\ ~SomeCallFailed(cur)) =>
        mysql_grant_exists(grants, SpecPrivileges(cur)) = PyTrue

C2_Witness ==
    /\ cur.kind = "present" /\ ~cur.args.test /\ ~SomeCallFailed(cur)
    /\ Answer(cur) = None
    /\ Len(cur.calls) = 3

\* C3 (as claimed): after absent in apply mode, if no backend call reported
\* failure, mysql.grant_exists answers False for the same grant, from every
\* initial state of the backend.
C3_AbsentPostcondition_Claimed ==
    (cur.kind = "absent" /\ ~cur.args.test /\ ~SomeCallFailed(cur)) =>
        mysql_grant_exists(grants, SpecPrivileges(cur)) = PyFalse

\* C3 (amended): after absent in apply mode, if no backend call reported
\* failure, mysql.grant_exists answers False when it answered True or False
\* before; when it answered None before, absent leaves the grants as they
\* were and the answer stays None.
C3_AbsentPostcondition ==
    (cur.kind = "absent" /\ ~cur.args.test /\ ~SomeCallFailed(cur)) =>
        /\ Answer(cur) \in {PyTrue, PyFalse} =>
               mysql_grant_exists(grants, SpecPrivileges(cur)) = PyFalse
        /\ Answer(cur) = None =>
               /\ grants = cur.pre
               /\ mysql_grant_exists(grants, SpecPrivileges(cur)) = None

C3_Witness ==
    /\ cur.kind = "absent" /\ ~cur.args.test /\ ~SomeCallFailed(cur)
    /\ Answer(cur) = PyTrue /\ Len(cur.calls) = 2
    /\ prev.kind = "absent" /\ ~prev.args.test /\ Answer(prev) = None

\* C4: in apply mode, when a mysql.grant_add or mysql.grant_revoke call of
\* present or absent reports failure, the returned result is False.
C4_FailureIsReported ==
    (IsInvocation(cur) /\ ~cur.args.test /\ SomeCallFailed(cur)) =>
        cur.ret.result = PyFalse

\* C5: two successive calls of present (of absent) with the same arguments
\* in apply mode, all backend calls succeeding, the first on a backend
\* without the grant (with the grant): the first returns non-empty changes,
\* the second empty changes and makes no mutating call.
C5_Idempotence ==
    (/\ IsInvocation(prev) /\ cur.kind = prev.kind /\ cur.args = prev.args
     /\ ~cur.args.test
     /\ ~SomeCallFailed(prev) /\ ~SomeCallFailed(cur)
     /\ Answer(prev) = IF prev.kind = "present" THEN PyFalse ELSE PyTrue) =>
        /\ prev.ret.changes # {}
        /\ cur.ret.changes = {}
        /\ Mutations(cur) = <<>>

C5_Witness ==
    /\ prev.kind = "present" /\ cur.kind = "present" /\ cur.args = prev.args
    /\ ~cur.args.test
    /\ Answer(prev) = PyFalse /\ ~SomeCallFailed(prev)
    /\ Len(prev.calls) = 2 /\ Len(cur.calls) = 1

\* C6: changes is {name: "Present"} (present) or {name: "Absent"} (absent)
\* when some mysql.grant_add or mysql.grant_revoke call of the invocation
\* succeeded, and is empty when the invocation changed nothing.
C6_ChangesAreExact ==
    IsInvocation(cur) =>
        cur.ret.changes =
            IF SomeCallSucceeded(cur)
            THEN {<<cur.args.name,
                    IF cur.kind = "present" THEN "Present" ELSE "Absent">>}
            ELSE {}

\* C7: the backend is called with privileges when it is given and with
\* grant otherwise (the revoke of a conflicting grant takes
\* "ALL PRIVILEGES"); an invocation with only grant = p makes the calls and
\* returns the record of the invocation with only privileges = p on the
\* same backend.
C7_PrivilegeFallback ==
    IsInvocation(cur) =>
        /\ \A k \in DOMAIN cur.calls :
              \/ cur.calls[k].args[1] = SpecPrivileges(cur)
              \/ /\ cur.kind = "present"
                 /\ cur.calls[k].fn = "mysql.grant_revoke"
                 /\ cur.calls[k].args[1] = AllPrivileges
        /\ (cur.args.privileges = None) =>
              \E revokeOk \in BOOLEAN, addOk \in BOOLEAN :
                 Run(cur.kind,
                     [cur.args EXCEPT !.privileges = cur.args.grant,
                                      !.grant = None],
                     cur.pre, revokeOk, addOk) = Observed(cur)
        /\ (cur.args.grant = None) =>
              \E revokeOk \in BOOLEAN, addOk \in BOOLEAN :
                 Run(cur.kind,
                     [cur.args EXCEPT !.privileges = None,
                                      !.grant = cur.args.privileges],
                     cur.pre, revokeOk, addOk) = Observed(cur)

C7_Witness ==
    /\ cur.kind = "present" /\ cur.args.privileges = None
    /\ cur.args.grant = "select" /\ Len(cur.calls) = 3
    /\ prev.kind = "absent" /\ prev.args.privileges = "insert"
    /\ prev.args.grant = "select" /\ Len(prev.calls) = 2

\* C8: present in apply mode, when mysql.grant_exists answers None, makes
\* exactly one mysql.grant_revoke call, for "ALL PRIVILEGES" on the grant's
\* database, user, host and grant_option, and after it exactly one
\* mysql.grant_add call for the grant, whether the revoke succeeded or not;
\* when mysql.grant_exists answers False it makes no mysql.grant_revoke call.
C8_ConflictPath ==
    (cur.kind = "present" /\ ~cur.args.test) =>
        /\ Answer(cur) = None =>
              /\ Len(cur.calls) = 3
              /\ cur.calls[2].fn = "mysql.grant_revoke"
              /\ cur.calls[2].args = RevokeArgs(cur, AllPrivileges)
              /\ cur.calls[3].fn = "mysql.grant_add"
              /\ cur.calls[3].args = SpecArgs(cur)
        /\ Answer(cur) = PyFalse =>
              /\ CallsTo(cur, "mysql.grant_revoke") = <<>>
              /\ Len(CallsTo(cur, "mysql.grant_add")) = 1

C8_Witness ==
    /\ cur.kind = "present" /\ ~cur.args.test /\ Answer(cur) = None
    /\ cur.calls[2].ret = PyFalse /\ cur.calls[3].ret = PyTrue

\* C9 (as claimed): absent handles the answers True and None of
\* mysql.grant_exists alike: in test mode result None, the "set to be
\* revoked" comment and no mutation; in apply mode exactly one
\* mysql.grant_revoke call for the grant, with changes {name: "Absent"} when
\* it succeeds. Only on the answer False absent reports "not present" and
\* makes no mysql.grant_revoke call.
C9_AbsentOnNone_Claimed ==
    (cur.kind = "absent") =>
        /\ (Answer(cur) \in {PyTrue, None} /\ cur.args.test) =>
              /\ cur.ret.result = None
              /\ cur.ret.comment =
                    <<"MySQL grant {0} is set to be revoked", cur.args.name>>
              /\ Mutations(cur) = <<>>
        /\ (Answer(cur) \in {PyTrue, None} /\ ~cur.args.test) =>
              /\ Len(Mutations(cur)) = 1
              /\ Mutations(cur)[1].fn = "mysql.grant_revoke"
              /\ Mutations(cur)[1].args = RevokeArgs(cur, SpecPrivileges(cur))
              /\ Mutations(cur)[1].ret = PyTrue =>
                    cur.ret.changes = {<<cur.args.name, "Absent">>}
        /\ Answer(cur) = PyFalse =>
              /\ Mutations(cur) = <<>>
              /\ cur.ret.comment[1] =
                    "Grant {0} on {1} to {2}@{3} is not present, so it cannot be revoked"

\* C9 (amended): absent handles the answer None of mysql.grant_exists like
\* False: only on the answer True it returns, in test mode, result None with
\* the "set to be revoked" comment and no mutation, and makes, in apply
\* mode, exactly one mysql.grant_revoke call for the grant, with changes
\* {name: "Absent"} when it succeeds. On the answers False and None absent
\* reports "not present", with result True and empty changes, and makes no
\* mysql.grant_revoke call.
C9_AbsentOnNone ==
    (cur.kind = "absent") =>
        /\ (Answer(cur) = PyTrue /\ cur.args.test) =>
              /\ cur.ret.result = None
              /\ cur.ret.comment =
                    <<"MySQL grant {0} is set to be revoked", cur.args.name>>
              /\ Mutations(cur) = <<>>
        /\ (Answer(cur) = PyTrue /\ ~cur.args.test) =>
              /\ Len(Mutations(cur)) = 1
              /\ Mutations(cur)[1].fn = "mysql.grant_revoke"
              /\ Mutations(cur)[1].args = RevokeArgs(cur, SpecPrivileges(cur))
              /\ Mutations(cur)[1].ret = PyTrue =>
                    cur.ret.changes = {<<cur.args.name, "Absent">>}
        /\ Answer(cur) \in {PyFalse, None} =>
              /\ Mutations(cur) = <<>>
              /\ cur.ret.result = PyTrue
              /\ cur.ret.changes = {}
              /\ cur.ret.comment[1] =
                    "Grant {0} on {1} to {2}@{3} is not present, so it cannot be revoked"

C9_Witness ==
    /\ cur.kind = "absent" /\ ~cur.args.test /\ Answer(cur) = None
    /\ prev.kind = "absent" /\ prev.args.test /\ Answer(prev) = None

\* C10: every invocation calls mysql.grant_exists exactly once, before any
\* other call; present makes at most one mysql.grant_revoke and at most one
\* mysql.grant_add call, and neither when the answer was True; absent makes
\* at most one mysql.grant_revoke call and no mysql.grant_add call; no call
\* that reported failure is made again.
C10_BoundedOrderedCalls ==
    IsInvocation(cur) =>
        /\ Len(cur.calls) >= 1
        /\ cur.calls[1].fn = "mysql.grant_exists"
        /\ Len(CallsTo(cur, "mysql.grant_exists")) = 1
        /\ Len(CallsTo(cur, "mysql.grant_revoke")) <= 1
        /\ Len(CallsTo(cur, "mysql.grant_add")) <= 1
        /\ (cur.kind = "present" /\ Answer(cur) = PyTrue) =>
              Mutations(cur) = <<>>
        /\ cur.kind = "absent" => CallsTo(cur, "mysql.grant_add") = <<>>
        /\ \A j, k \in DOMAIN cur.calls :
              (j < k /\ IsMutation(cur.calls[j]) /\ cur.calls[j].ret = PyFalse) =>
                 ~(/\ cur.calls[k].fn = cur.calls[j].fn
                   /\ cur.calls[k].args = cur.calls[j].args)

C10_Witness ==
    /\ cur.kind = "present" /\ ~cur.args.test /\ Answer(cur) = None
    /\ cur.calls[2].ret = PyFalse /\ cur.calls[3].ret = PyFalse
    /\ prev.kind = "absent" /\ Len(prev.calls) = 2 /\ prev.calls[2].ret = PyFalse

=============================================================================
